---- MODULE Spec2Model ----
(***************************************************************************)
(* A model of BugZoo's command-line interface (src/bugzoo/cli.py) and of  *)
(* the Bug entity (src/bugzoo/core/bug.py).                               *)
(*                                                                         *)
(* The module holds six state machines, one per part of the program, each *)
(* with its own variables and its own specification:                      *)
(*   SpecManifest    Bug.from_file and Bug.__init__                       *)
(*   SpecIdentifier  Bug.identifier over a registry of constructed bugs   *)
(*   SpecCoverage    Bug.coverage, accessed by one or two processes       *)
(*   SpecLaunch      cli.launch                                           *)
(*   SpecList        cli.list_bugs, cli.list_tools, cli.list_datasets     *)
(*   SpecMain        cli.main: argument parsing, dispatch, error handling *)
(* While one machine runs, the variables of the others keep a fixed value.*)
(*                                                                         *)
(* Strings that the program compares, sorts or concatenates are modelled  *)
(* as sequences of character codes, so that formatting and ordering are   *)
(* computed, not assumed.                                                 *)
(***************************************************************************)
EXTENDS Integers, Sequences, FiniteSets, TLC

VARIABLES
    \* ---- Bug.from_file
    yml,           \* the parsed manifest: the keys it has and their values
    assertsOn,     \* whether the interpreter executes assert statements
    loaded,        \* what from_file produced: a Bug or the error it raised
    \* ---- Bug.identifier
    bugs,          \* the bugs constructed so far, in construction order
    \* ---- Bug.coverage
    cacheFile,     \* the file <coverage_path>/<identifier>.coverage.yml
    pc,            \* per process: position inside Bug.coverage
    container,     \* per process: the local variable `container`
    coverage,      \* per process: the local variable `coverage`
    pos,           \* per process: offset of the handle opened with open(fn, 'w')
    exc,           \* per process: an exception is propagating
    running,       \* runtime instances currently started
    destroyCalls,  \* per container: number of destroy() calls received
    handles,       \* the containers that provision() returned to its caller
    acc,           \* per process: what the current access did and how it ended
    \* ---- cli.launch
    largs,         \* the arguments: the bug's name and the names of the tools
    lpc,           \* position inside launch
    ltools,        \* the tools resolved so far (the list comprehension of line 188)
    lc,            \* the local variable `c`
    linstances,    \* runtime instances started by the command and still running
    ldestroys,     \* number of destroy() calls made by the command
    lexc,          \* the error that ended the command, if any
    ltrace,        \* the calls the command made, in order
    \* ---- cli.list_bugs, cli.list_tools, cli.list_datasets
    listKind,      \* which registry is listed: "bug", "tool" or "dataset"
    registry,      \* the registry, in iteration order
    tables,        \* per value of show_installed: the table the listing printed
    \* ---- cli.main
    argv,          \* the command line
    fault,         \* the error the dispatched command raises, if any
    mpc,           \* position inside main
    ns,            \* the namespace parse_args returned
    raised,        \* the error raised inside main's try block, if any
    outcome,       \* how the process ended
    printed        \* what the process printed: a table, or an error's message

manVars == <<yml, assertsOn, loaded>>
idVars == <<bugs>>
covVars == <<cacheFile, pc, container, coverage, pos, exc, running, destroyCalls,
            handles, acc>>
launchVars == <<largs, lpc, ltools, lc, linstances, ldestroys, lexc, ltrace>>
listVars == <<listKind, registry, tables>>
mainVars == <<argv, fault, mpc, ns, raised, outcome, printed>>

vars == <<manVars, idVars, covVars, launchVars, listVars, mainVars>>

(***************************************************************************)
(* Bounds of the model.                                                    *)
(***************************************************************************)
MaxLanguages == 2   \* longest `languages` list of a manifest
MaxStrLen == 3      \* longest dataset, program or bug name
MaxBugs == 2        \* bugs constructed in SpecIdentifier
MaxAccesses == 2    \* accesses of `coverage` per process
NumTests == 2       \* tests of the harness
MaxTools == 2       \* --with options of `container launch`
MaxEntries == 4     \* entries of a listed registry
MaxFlags == 3       \* options after `bug list` or `tool list`

SeqsUpTo(S, n) == UNION {[1..k -> S] : k \in 0..n}

(***************************************************************************)
(* Strings                                                                 *)
(***************************************************************************)

\* ":" as a string.
Colon == <<58>>

\* Python's None where a string is expected.
NoString == <<-1>>

\* Python's truth value of an optional string: None and "" are false.
Truthy(s) == s # NoString /\ s # <<>>

\* Python's < on strings: lexicographic, by character code; a proper prefix
\* is smaller.
RECURSIVE StrLess(_, _)
StrLess(s, t) ==
    IF t = <<>> THEN FALSE
    ELSE IF s = <<>> THEN TRUE
    ELSE IF Head(s) # Head(t) THEN Head(s) < Head(t)
    ELSE StrLess(Tail(s), Tail(t))

(***************************************************************************)
(* Bug.__init__ and Bug.identifier                                         *)
(***************************************************************************)

NoBug == [dataset |-> NoString, name |-> NoString, program |-> NoString,
          languages |-> <<>>]

\* lines 97-99: the three assert statements, when the interpreter runs them.
InitAsserts(name, program, languages) ==
    name # <<>> /\ program # <<>> /\ languages # <<>>

\* lines 87-108: Bug(dataset, name, program, languages, ...).  An assert that
\* fails raises AssertionError; an interpreter started with -O skips asserts.
BugInit(dataset, name, program, languages, asserts) ==
    IF asserts /\ ~InitAsserts(name, program, languages)
    THEN [kind |-> "AssertionError", what |-> "__init__", bug |-> NoBug]
    ELSE [kind |-> "Bug", what |-> "",
          bug |-> [dataset |-> dataset, name |-> name, program |-> program,
                   languages |-> languages]]

\* lines 223-231: "{}:{}:{}".format(dataset.name, program, name) when program
\* is set, "{}:{}".format(dataset.name, name) otherwise.
Identifier(b) ==
    IF Truthy(b.program)
    THEN b.dataset \o Colon \o b.program \o Colon \o b.name
    ELSE b.dataset \o Colon \o b.name

(***************************************************************************)
(* Bug.from_file                                                           *)
(***************************************************************************)

Keys == {"bug", "program", "languages", "test-harness", "source-location",
         "compiler", "build"}

\* The members of the Language enumeration a manifest may name.
LanguageNames == {"C", "Java"}

\* The dataset the manifest is loaded for.
ManifestDataset == <<100>>

KeyError(k) == [kind |-> "KeyError", what |-> k, bug |-> NoBug]
MissingError(k) == [kind |-> "Exception", what |-> k, bug |-> NoBug]

\* line 54: `languages is []` compares the parsed list with a list created
\* for the comparison, by identity: two distinct objects are never identical.
IsEmptyList(languages) == FALSE

\* lines 43-85, statement by statement; the first statement that raises ends
\* the load.
BugFromFile(dataset, y, asserts) ==
    IF "bug" \notin y.keys THEN KeyError("bug")                     \* line 46
    ELSE IF "languages" \notin y.keys THEN MissingError("languages") \* line 50
    ELSE IF IsEmptyList(y.languages) THEN MissingError("languages") \* line 54
    ELSE IF "test-harness" \notin y.keys THEN KeyError("test-harness") \* 59
    ELSE IF "source-location" \notin y.keys THEN KeyError("source-location")
    ELSE IF "compiler" \notin y.keys THEN MissingError("compiler")   \* line 65
    ELSE IF "build" \notin y.keys THEN KeyError("build")             \* line 72
    ELSE BugInit(dataset, y.bug,
                 IF "program" \in y.keys THEN y.program ELSE NoString, \* 47
                 y.languages, asserts)                               \* line 78

\* The manifests: any set of keys; the bug is named "b", the program, when
\* there is one, "p"; a key that is absent has no value.
Manifests ==
    {y \in [keys : SUBSET Keys,
            bug : {<<>>, <<98>>},
            program : {<<>>, <<112>>},
            languages : SeqsUpTo(LanguageNames, MaxLanguages)] :
        /\ y.bug = (IF "bug" \in y.keys THEN <<98>> ELSE <<>>)
        /\ y.program = (IF "program" \in y.keys THEN <<112>> ELSE <<>>)
        /\ "languages" \notin y.keys => y.languages = <<>>}

NotLoaded == [kind |-> "none", what |-> "", bug |-> NoBug]

ManStart ==
    /\ yml \in Manifests
    /\ assertsOn \in BOOLEAN
    /\ loaded = NotLoaded

ManParked ==
    /\ yml = [keys |-> {}, bug |-> <<>>, program |-> <<>>, languages |-> <<>>]
    /\ assertsOn = TRUE
    /\ loaded = NotLoaded

\* Bug.from_file(dataset, fn)
LoadManifest ==
    /\ loaded = NotLoaded
    /\ loaded' = BugFromFile(ManifestDataset, yml, assertsOn)
    /\ UNCHANGED <<yml, assertsOn>>
    /\ UNCHANGED <<idVars, covVars, launchVars, listVars, mainVars>>

(***************************************************************************)
(* A registry of constructed bugs                                          *)
(***************************************************************************)

\* The names of datasets and programs are made of the letter "a", the names
\* of bugs of "a" and ":".
DatasetNames == SeqsUpTo({97}, MaxStrLen) \ {<<>>}
ProgramNames == SeqsUpTo({97}, MaxStrLen) \cup {NoString}
BugNames == SeqsUpTo({97, 58}, MaxStrLen)

IdStart == bugs = <<>>

IdParked == bugs = <<>>

\* Bug(dataset, name, program, ...) followed by registration; a constructor
\* that raises registers nothing.
ConstructBug ==
    /\ Len(bugs) < MaxBugs
    /\ \E d \in DatasetNames, n \in BugNames, p \in ProgramNames, a \in BOOLEAN :
          LET r == BugInit(d, n, p, <<"C">>, a) IN
              /\ r.kind = "Bug"
              /\ bugs' = Append(bugs, r.bug)
    /\ UNCHANGED <<manVars, covVars, launchVars, listVars, mainVars>>

(***************************************************************************)
(* Bug.coverage                                                            *)
(***************************************************************************)

\* One process, or two processes sharing the installation's coverage directory.
Procs == {1, 2}
Tests == 1..NumTests

\* Python's None, for a variable that holds a container, and for one that
\* holds a coverage map.
NoContainer == <<0, 0>>
NoMap == <<>>

\* The coverage maps an instrumented run of the harness may return: for every
\* test of the harness, the set of lines it executed.
CoverageMaps == {[t \in Tests |-> s] : s \in {{}, {1}}}

\* coverage.to_dict() followed by yaml.dump: one document entry per test,
\* keyed by the test's identifier, written to the stream in that order.
Dump(m) == [i \in 1..NumTests |-> [test |-> i, lines |-> m[i]]]

\* ProjectCoverageMap.from_file(fn, harness): the entries of the file,
\* cross-checked against the harness's tests.  A file that does not hold one
\* entry for every test of the harness cannot be loaded.
WellFormed(data) ==
    /\ Len(data) = NumTests
    /\ \A i \in 1..NumTests : data[i].test = i

CoverageFromFile(data) ==
    IF WellFormed(data) THEN [t \in Tests |-> data[t].lines] ELSE NoMap

\* What a part of a file that was never written reads as.
Hole == [test |-> 0, lines |-> {}]

\* Writing one chunk at offset k of a file: bytes past the end of the file
\* that were never written read as a hole.
WriteAt(data, k, chunk) ==
    [i \in 1..(IF k + 1 > Len(data) THEN k + 1 ELSE Len(data)) |->
        IF i = k + 1 THEN chunk
        ELSE IF i <= Len(data) THEN data[i]
        ELSE Hole]

\* The container a process provisions in its n-th access.
ContainerIds == Procs \X (1..MaxAccesses)

\* Container(...): the constructor creates and starts the runtime instance.
\* It either returns the container, or raises before any instance was
\* started, or raises after the instance was started.
ProvisionOutcomes == {"ok", "raise_clean", "raise_started"}

NoAccess ==
    [n |-> 0, sawCache |-> FALSE, nProv |-> 0, nRun |-> 0, nOpen |-> 0,
     outcome |-> "none", result |-> NoMap,
     diskRead |-> <<>>, written |-> FALSE]

CovStart ==
    /\ cacheFile = [exists |-> FALSE, data |-> <<>>]
    /\ pc = [p \in Procs |-> "idle"]
    /\ container = [p \in Procs |-> NoContainer]
    /\ coverage = [p \in Procs |-> NoMap]
    /\ pos = [p \in Procs |-> 0]
    /\ exc = [p \in Procs |-> FALSE]
    /\ running = {}
    /\ destroyCalls = [c \in ContainerIds |-> 0]
    /\ handles = {}
    /\ acc = [p \in Procs |-> NoAccess]

AlwaysCompute(exists) == "provision"

\* lines 191-195: a cache file that exists is loaded, otherwise the map is
\* computed.
AfterExists(exists) == IF exists THEN "load" ELSE "provision"

\* lines 187-196: compute fn, test os.path.exists(fn), enter the try block.
Begin(p) ==
    /\ pc[p] \in {"idle", "done"}
    /\ acc[p].n < MaxAccesses
    /\ acc' = [acc EXCEPT ![p] = [NoAccess EXCEPT !.n = acc[p].n + 1,
                                                 !.sawCache = cacheFile.exists]]
    /\ pc' = [pc EXCEPT ![p] = AfterExists(cacheFile.exists)]
    /\ container' = [container EXCEPT ![p] = NoContainer]
    /\ coverage' = [coverage EXCEPT ![p] = NoMap]
    /\ exc' = [exc EXCEPT ![p] = FALSE]
    /\ pos' = [pos EXCEPT ![p] = 0]
    /\ UNCHANGED <<cacheFile, running, destroyCalls, handles>>
    /\ UNCHANGED <<manVars, idVars, launchVars, listVars, mainVars>>

\* line 192: return ProjectCoverageMap.from_file(fn, self.harness)
LoadCached(p) ==
    /\ pc[p] = "load"
    /\ LET m == CoverageFromFile(cacheFile.data) IN
        acc' = [acc EXCEPT ![p].diskRead = cacheFile.data,
                           ![p].result = m,
                           ![p].outcome = IF m = NoMap THEN "raised" ELSE "returned"]
    /\ pc' = [pc EXCEPT ![p] = "done"]
    /\ UNCHANGED <<cacheFile, container, coverage, pos, exc, running, destroyCalls,
                   handles>>
    /\ UNCHANGED <<manVars, idVars, launchVars, listVars, mainVars>>

\* line 197: container = self.provision()
ProvisionStep(p, o) ==
    /\ pc[p] = "provision"
    /\ LET c == <<p, acc[p].n>> IN
        /\ running' = IF o = "raise_clean" THEN running ELSE running \cup {c}
        /\ container' = [container EXCEPT ![p] = IF o = "ok" THEN c ELSE NoContainer]
        /\ handles' = IF o = "ok" THEN handles \cup {c} ELSE handles
    /\ acc' = [acc EXCEPT ![p].nProv = @ + 1]
    /\ exc' = [exc EXCEPT ![p] = (o # "ok")]
    /\ pc' = [pc EXCEPT ![p] = IF o = "ok" THEN "run" ELSE "finally"]
    /\ UNCHANGED <<cacheFile, coverage, pos, destroyCalls>>
    /\ UNCHANGED <<manVars, idVars, launchVars, listVars, mainVars>>

Provision(p) == \E o \in ProvisionOutcomes : ProvisionStep(p, o)

\* line 198: coverage = container.coverage()
RunCoverage(p) ==
    /\ pc[p] = "run"
    /\ acc' = [acc EXCEPT ![p].nRun = @ + 1]
    /\ \/ \E m \in CoverageMaps :
            /\ coverage' = [coverage EXCEPT ![p] = m]
            /\ pc' = [pc EXCEPT ![p] = "open"]
            /\ UNCHANGED exc
       \/ /\ exc' = [exc EXCEPT ![p] = TRUE]
          /\ pc' = [pc EXCEPT ![p] = "finally"]
          /\ UNCHANGED coverage
    /\ UNCHANGED <<cacheFile, container, pos, running, destroyCalls, handles>>
    /\ UNCHANGED <<manVars, idVars, launchVars, listVars, mainVars>>

\* line 201: open(fn, 'w') creates the file, or truncates it, before anything
\* is written; when it raises, the file is left as it was.
OpenCache(p) ==
    /\ pc[p] = "open"
    /\ \/ /\ cacheFile' = [exists |-> TRUE, data |-> <<>>]
          /\ pos' = [pos EXCEPT ![p] = 0]
          /\ acc' = [acc EXCEPT ![p].nOpen = @ + 1]
          /\ pc' = [pc EXCEPT ![p] = "dump"]
          /\ UNCHANGED exc
       \/ /\ exc' = [exc EXCEPT ![p] = TRUE]
          /\ pc' = [pc EXCEPT ![p] = "finally"]
          /\ UNCHANGED <<cacheFile, pos, acc>>
    /\ UNCHANGED <<container, coverage, running, destroyCalls, handles>>
    /\ UNCHANGED <<manVars, idVars, launchVars, listVars, mainVars>>

\* line 202: yaml.dump(coverage.to_dict(), f, ...) writes the document to the
\* open handle piece by piece; it may raise before or between two pieces.
DumpChunk(p) ==
    /\ pc[p] = "dump"
    /\ \/ /\ pos[p] < NumTests
          /\ cacheFile' = [cacheFile EXCEPT
                 !.data = WriteAt(@, pos[p], Dump(coverage[p])[pos[p] + 1])]
          /\ pos' = [pos EXCEPT ![p] = @ + 1]
          /\ UNCHANGED <<pc, exc, acc>>
       \/ /\ pos[p] < NumTests
          /\ exc' = [exc EXCEPT ![p] = TRUE]
          /\ pc' = [pc EXCEPT ![p] = "finally"]
          /\ UNCHANGED <<cacheFile, pos, acc>>
       \/ /\ pos[p] = NumTests
          /\ acc' = [acc EXCEPT ![p].written = TRUE]
          /\ pc' = [pc EXCEPT ![p] = "finally"]
          /\ UNCHANGED <<cacheFile, pos, exc>>
    /\ UNCHANGED <<container, coverage, running, destroyCalls, handles>>
    /\ UNCHANGED <<manVars, idVars, launchVars, listVars, mainVars>>

FinallySkipsDestroy(c) == FALSE

\* lines 203-205: the finally clause destroys the container if there is one.
FinallyDestroys(c) == c # NoContainer

\* lines 203-207: finally, then return coverage or let the exception go on.
Finally(p) ==
    /\ pc[p] = "finally"
    /\ IF FinallyDestroys(container[p])
       THEN /\ running' = running \ {container[p]}
            /\ destroyCalls' = [destroyCalls EXCEPT ![container[p]] = @ + 1]
       ELSE UNCHANGED <<running, destroyCalls>>
    /\ acc' = [acc EXCEPT ![p].outcome = IF exc[p] THEN "raised" ELSE "returned",
                          ![p].result = IF exc[p] THEN NoMap ELSE coverage[p]]
    /\ pc' = [pc EXCEPT ![p] = "done"]
    /\ UNCHANGED <<cacheFile, container, coverage, pos, exc, handles>>
    /\ UNCHANGED <<manVars, idVars, launchVars, listVars, mainVars>>

(***************************************************************************)
(* cli.launch: the command `container launch <bug> [--with tool]*`         *)
(***************************************************************************)

\* The registries of the installation, and the names a command line may give.
BugRegistry == {"bug1"}
ToolRegistry == {"tool1", "tool2"}
LaunchBugNames == BugRegistry \cup {"nobug"}
ToolNames == ToolRegistry \cup {"notool"}

\* The container launch provisions.
LaunchContainer == <<1, 1>>

CovParked ==
    /\ cacheFile = [exists |-> FALSE, data |-> <<>>]
    /\ pc = [p \in Procs |-> "parked"]
    /\ container = [p \in Procs |-> NoContainer]
    /\ coverage = [p \in Procs |-> NoMap]
    /\ pos = [p \in Procs |-> 0]
    /\ exc = [p \in Procs |-> FALSE]
    /\ running = {}
    /\ destroyCalls = [c \in ContainerIds |-> 0]
    /\ handles = {}
    /\ acc = [p \in Procs |-> NoAccess]

LaunchParked ==
    /\ largs = [name |-> "", tools |-> <<>>]
    /\ lpc = "parked"
    /\ ltools = <<>>
    /\ lc = NoContainer
    /\ linstances = {}
    /\ ldestroys = 0
    /\ lexc = "none"
    /\ ltrace = <<>>

LaunchStart ==
    /\ largs \in [name : LaunchBugNames, tools : SeqsUpTo(ToolNames, MaxTools)]
    /\ lpc = "lookup"
    /\ ltools = <<>>
    /\ lc = NoContainer
    /\ linstances = {}
    /\ ldestroys = 0
    /\ lexc = "none"
    /\ ltrace = <<>>

\* An entry of ltrace: a call launch made, recorded when the call ended, and
\* whether it returned (ok) or raised.
Call(c, ok) == [call |-> c, ok |-> ok]

\* line 186: bug = rbox.bugs[name]
LookupBug ==
    /\ lpc = "lookup"
    /\ ltrace' = Append(ltrace, Call("lookup", largs.name \in BugRegistry))
    /\ IF largs.name \in BugRegistry
       THEN lpc' = "install" /\ UNCHANGED lexc
       ELSE lpc' = "done" /\ lexc' = "NotFound"
    /\ UNCHANGED <<largs, ltools, lc, linstances, ldestroys>>
    /\ UNCHANGED <<manVars, idVars, covVars, listVars, mainVars>>

\* line 187: bug.install()
InstallBug ==
    /\ lpc = "install"
    /\ \/ /\ lpc' = "resolve" /\ UNCHANGED lexc
          /\ ltrace' = Append(ltrace, Call("install", TRUE))
       \/ /\ lpc' = "done" /\ lexc' = "RuntimeFailure"
          /\ ltrace' = Append(ltrace, Call("install", FALSE))
    /\ UNCHANGED <<largs, ltools, lc, linstances, ldestroys>>
    /\ UNCHANGED <<manVars, idVars, covVars, listVars, mainVars>>

\* line 188: tools = [rbox.tools[t] for t in tools], one element at a time
ResolveTool ==
    /\ lpc = "resolve"
    /\ Len(ltools) < Len(largs.tools)
    /\ LET t == largs.tools[Len(ltools) + 1] IN
        /\ ltrace' = Append(ltrace, Call("resolve", t \in ToolRegistry))
        /\ IF t \in ToolRegistry
           THEN ltools' = Append(ltools, t) /\ UNCHANGED <<lpc, lexc>>
           ELSE lpc' = "done" /\ lexc' = "NotFound" /\ UNCHANGED ltools
    /\ UNCHANGED <<largs, lc, linstances, ldestroys>>
    /\ UNCHANGED <<manVars, idVars, covVars, listVars, mainVars>>

\* lines 189-191: try: c = None; c = bug.provision(tty=True, tools=tools)
LaunchProvisionStep(o) ==
    /\ lpc = "resolve"
    /\ Len(ltools) = Len(largs.tools)
    /\ ltrace' = Append(ltrace, Call("provision", o = "ok"))
    /\ linstances' = IF o = "raise_clean" THEN linstances
                     ELSE linstances \cup {LaunchContainer}
    /\ lc' = IF o = "ok" THEN LaunchContainer ELSE NoContainer
    /\ lexc' = IF o = "ok" THEN "none" ELSE "RuntimeFailure"
    /\ lpc' = IF o = "ok" THEN "interact" ELSE "finally"
    /\ UNCHANGED <<largs, ltools, ldestroys>>
    /\ UNCHANGED <<manVars, idVars, covVars, listVars, mainVars>>

LaunchProvision == \E o \in ProvisionOutcomes : LaunchProvisionStep(o)

\* line 192: c.interact() blocks until the session ends, or raises
Interact ==
    /\ lpc = "interact"
    /\ \E e \in {"none", "RuntimeFailure", "KeyboardInterrupt"} :
          /\ lexc' = e
          /\ ltrace' = Append(ltrace, Call("interact", e = "none"))
    /\ lpc' = "finally"
    /\ UNCHANGED <<largs, ltools, lc, linstances, ldestroys>>
    /\ UNCHANGED <<manVars, idVars, covVars, listVars, mainVars>>

\* A finally clause that calls destroy whatever `c` holds.
LaunchDestroysAlways(c) == TRUE

\* line 194: if c:
LaunchDestroys(c) == c # NoContainer

\* lines 193-195: finally: if c: c.destroy()
LaunchFinally ==
    /\ lpc = "finally"
    /\ IF LaunchDestroys(lc)
       THEN /\ linstances' = linstances \ {lc}
            /\ ldestroys' = ldestroys + 1
            /\ ltrace' = Append(ltrace, Call("destroy", TRUE))
       ELSE UNCHANGED <<linstances, ldestroys, ltrace>>
    /\ lpc' = "done"
    /\ UNCHANGED <<largs, ltools, lc, lexc>>
    /\ UNCHANGED <<manVars, idVars, covVars, listVars, mainVars>>

(***************************************************************************)
(* cli.list_bugs, cli.list_tools, cli.list_datasets                        *)
(***************************************************************************)

\* The strings "Yes" and "No" of the Installed? column.
Yes == <<89, 101, 115>>
No == <<78, 111>>

\* The names of sources: "a", "b" and "ab".
Sources == {<<97>>, <<98>>, <<97, 98>>}

\* The name of the i-th entry of a registry: "x1", "x2", ...
EntryName(i) == <<120, 48 + i>>

\* The registries of k bugs, each of some dataset, installed or not.
BugRegistriesOfLen(k) ==
    {[i \in 1..k |-> [dataset |-> f[i][1], program |-> NoString,
                      name |-> EntryName(i), installed |-> f[i][2]]] :
        f \in [1..k -> Sources \X BOOLEAN]}

\* The registries of k tools, each from some url, installed or not.
ToolRegistriesOfLen(k) ==
    {[i \in 1..k |-> [name |-> EntryName(i), url |-> f[i][1],
                      installed |-> f[i][2]]] :
        f \in [1..k -> Sources \X BOOLEAN]}

BugRegistries == UNION {BugRegistriesOfLen(k) : k \in 0..MaxEntries}

ToolRegistries == UNION {ToolRegistriesOfLen(k) : k \in 0..MaxEntries}

DatasetRegistries ==
    {[i \in 1..Len(f) |-> [name |-> f[i], url |-> EntryName(i), size |-> i]] :
        f \in SeqsUpTo(Sources, MaxEntries)}

\* The values of show_installed: None, True, False.
Shows == {"None", "True", "False"}
PyBool(b) == IF b THEN "True" ELSE "False"

SkippedNever(show, installed) == FALSE

\* lines 109-111 and 163-165: `continue` when a filter is given and differs
\* from the entry's installed flag.
Skipped(show, installed) == show # "None" /\ show # PyBool(installed)

\* lines 113 and 167: 'Yes' if installed else 'No'
YesNo(installed) == IF installed THEN Yes ELSE No

\* line 114: row = [bug.identifier, bug.dataset.name, installed]
BugRow(b) == <<Identifier(b), b.dataset, YesNo(b.installed)>>

\* line 168: row = [tool.name, tool.url, installed]
ToolRow(t) == <<t.name, t.url, YesNo(t.installed)>>

\* line 48: row = [ds.name, ds.url, ds.size]
DatasetRow(ds) == <<ds.name, ds.url, ds.size>>

\* itemgetter(c1, ..., cn) as a sort key: row r1 sorts before row r2 when
\* its columns, compared in that order, are smaller.
RECURSIVE ItemsLess(_, _, _)
ItemsLess(r1, r2, cols) ==
    IF cols = <<>> THEN FALSE
    ELSE IF r1[Head(cols)] # r2[Head(cols)]
         THEN StrLess(r1[Head(cols)], r2[Head(cols)])
         ELSE ItemsLess(r1, r2, Tail(cols))

\* The place of row r in a sorted table: behind every row that does not sort
\* after it.
RECURSIVE InsertRow(_, _, _)
InsertRow(tbl, r, cols) ==
    IF tbl = <<>> THEN <<r>>
    ELSE IF ItemsLess(r, Head(tbl), cols) THEN <<r>> \o tbl
    ELSE <<Head(tbl)>> \o InsertRow(Tail(tbl), r, cols)

\* sorted(tbl, key=itemgetter(...)): ascending and stable.
RECURSIVE SortedBy(_, _)
SortedBy(tbl, cols) ==
    IF tbl = <<>> THEN <<>>
    ELSE InsertRow(SortedBy(SubSeq(tbl, 1, Len(tbl) - 1), cols), tbl[Len(tbl)], cols)

BugSortKeySwapped == <<3, 2>>

\* lines 118 and 172: key=itemgetter(1,2), the columns Source and Installed?
BugSortKey == <<2, 3>>

\* line 51: key=itemgetter(0), the column Dataset
DatasetSortKey == <<1>>

RECURSIVE BugRows(_, _)
\* lines 104-115: the rows of the bugs that are not skipped, in registry order
BugRows(reg, show) ==
    IF reg = <<>> THEN <<>>
    ELSE IF Skipped(show, Head(reg).installed) THEN BugRows(Tail(reg), show)
    ELSE <<BugRow(Head(reg))>> \o BugRows(Tail(reg), show)

RECURSIVE ToolRows(_, _)
\* lines 158-169: the rows of the tools that are not skipped, in registry order
ToolRows(reg, show) ==
    IF reg = <<>> THEN <<>>
    ELSE IF Skipped(show, Head(reg).installed) THEN ToolRows(Tail(reg), show)
    ELSE <<ToolRow(Head(reg))>> \o ToolRows(Tail(reg), show)

\* lines 103-123: the table list_bugs prints
ListBugsTable(reg, show) == SortedBy(BugRows(reg, show), BugSortKey)

\* lines 157-177: the table list_tools prints
ListToolsTable(reg, show) == SortedBy(ToolRows(reg, show), BugSortKey)

\* lines 44-56: the table list_datasets prints
ListDatasetsTable(reg) ==
    SortedBy([i \in 1..Len(reg) |-> DatasetRow(reg[i])], DatasetSortKey)

ListStart ==
    /\ listKind \in {"bug", "tool", "dataset"}
    /\ registry \in (CASE listKind = "bug" -> BugRegistries
                       [] listKind = "tool" -> ToolRegistries
                       [] OTHER -> DatasetRegistries)
    /\ tables = <<>>

ListParked ==
    /\ listKind = "none"
    /\ registry = <<>>
    /\ tables = <<>>

\* list_bugs(rbox, show_installed)
ListBugs ==
    /\ listKind = "bug"
    /\ \E show \in Shows \ DOMAIN tables :
          tables' = tables @@ (show :> ListBugsTable(registry, show))
    /\ UNCHANGED <<listKind, registry>>
    /\ UNCHANGED <<manVars, idVars, covVars, launchVars, mainVars>>

\* list_tools(rbox, show_installed)
ListTools ==
    /\ listKind = "tool"
    /\ \E show \in Shows \ DOMAIN tables :
          tables' = tables @@ (show :> ListToolsTable(registry, show))
    /\ UNCHANGED <<listKind, registry>>
    /\ UNCHANGED <<manVars, idVars, covVars, launchVars, mainVars>>

\* list_datasets(rbox)
ListDatasets ==
    /\ listKind = "dataset"
    /\ "None" \notin DOMAIN tables
    /\ tables' = tables @@ ("None" :> ListDatasetsTable(registry))
    /\ UNCHANGED <<listKind, registry>>
    /\ UNCHANGED <<manVars, idVars, covVars, launchVars, mainVars>>

(***************************************************************************)
(* cli.main                                                                *)
(***************************************************************************)

\* The options a command line may give after `bug list` or `tool list`.
Flags == {"--installed", "--uninstalled", "--bogus"}

StoreFlagFirstWins(installed, flag) ==
    IF installed # "None" THEN installed
    ELSE IF flag = "--installed" THEN "True" ELSE "False"

\* lines 276-281 and 367-372: --installed is a store_true action and
\* --uninstalled a store_false action, both with dest='installed'; each
\* occurrence stores its constant in the namespace.
StoreFlag(installed, flag) ==
    IF flag = "--installed" THEN "True" ELSE "False"

\* parser.parse_args() for the options of a list command: the default of
\* `installed` is None (lines 282 and 373); an option the parser does not know
\* makes it print a usage error and raise SystemExit.
RECURSIVE ParseFlags(_, _)
ParseFlags(flags, installed) ==
    IF flags = <<>> THEN installed
    ELSE IF Head(flags) \notin {"--installed", "--uninstalled"} THEN "rejected"
    ELSE ParseFlags(Tail(flags), StoreFlag(installed, Head(flags)))

ParseArgs(flags) == ParseFlags(flags, "None")

\* lines 1-6: the names the module binds by its imports are argparse,
\* tabulate, List, itemgetter and BugZoo; the name Error of line 388 is bound
\* neither by the module nor by the builtins.
ErrorIsBound == FALSE

\* The errors the dispatched command may raise.
Faults == {"none", "KeyboardInterrupt", "SystemExit", "Error", "KeyError"}

Nothing == [kind |-> "nothing", rows |-> <<>>]

\* lines 384-389: the except clauses, tried in order.  Python evaluates the
\* expression of an except clause when it tries the clause; a name that is
\* not bound raises NameError there, and that error leaves main.
Handle(e) ==
    IF e \in {"KeyboardInterrupt", "SystemExit"}
    THEN [how |-> "clean", error |-> "none", printed |-> Nothing]
    ELSE IF ~ErrorIsBound
    THEN [how |-> "propagated", error |-> "NameError", printed |-> Nothing]
    ELSE IF e = "Error"
    THEN [how |-> "clean", error |-> "none",
          printed |-> [kind |-> "message", rows |-> <<>>]]
    ELSE [how |-> "propagated", error |-> e, printed |-> Nothing]

\* line 374 and 283: func = lambda args: list_bugs(rbox, args.installed), or
\* list_tools
ListTable(kind, reg, show) ==
    IF kind = "bug" THEN ListBugsTable(reg, show) ELSE ListToolsTable(reg, show)

MainStart ==
    /\ argv \in [group : {"bug", "tool"}, flags : SeqsUpTo(Flags, MaxFlags)]
    /\ fault \in Faults
    /\ mpc = "parse"
    /\ ns = "unparsed"
    /\ raised = "none"
    /\ outcome = [how |-> "running", error |-> "none"]
    /\ printed = Nothing
    /\ listKind = argv.group
    /\ registry \in (IF listKind = "bug" THEN BugRegistriesOfLen(2)
                                         ELSE ToolRegistriesOfLen(2))
    /\ tables = <<>>

MainParked ==
    /\ argv = [group |-> "none", flags |-> <<>>]
    /\ fault = "none"
    /\ mpc = "parked"
    /\ ns = "unparsed"
    /\ raised = "none"
    /\ outcome = [how |-> "running", error |-> "none"]
    /\ printed = Nothing

\* line 379: args = parser.parse_args()
MainParse ==
    /\ mpc = "parse"
    /\ ns' = ParseArgs(argv.flags)
    /\ IF ns' = "rejected"
       THEN raised' = "SystemExit" /\ mpc' = "except"
       ELSE raised' = raised /\ mpc' = "dispatch"
    /\ UNCHANGED <<argv, fault, outcome, printed>>
    /\ UNCHANGED <<manVars, idVars, covVars, launchVars, listVars>>

\* lines 380-381: args.func(args); the listing prints its table unless it
\* raises.
MainDispatch ==
    /\ mpc = "dispatch"
    /\ IF fault = "none"
       THEN /\ printed' = [kind |-> "table",
                           rows |-> ListTable(argv.group, registry, ns)]
            /\ outcome' = [how |-> "clean", error |-> "none"]
            /\ mpc' = "done"
            /\ UNCHANGED raised
       ELSE /\ raised' = fault
            /\ mpc' = "except"
            /\ UNCHANGED <<printed, outcome>>
    /\ UNCHANGED <<argv, fault, ns>>
    /\ UNCHANGED <<manVars, idVars, covVars, launchVars, listVars>>

\* lines 384-389: the except clauses
MainExcept ==
    /\ mpc = "except"
    /\ LET h == Handle(raised) IN
        /\ outcome' = [how |-> h.how, error |-> h.error]
        /\ printed' = h.printed
    /\ mpc' = "done"
    /\ UNCHANGED <<argv, fault, ns, raised>>
    /\ UNCHANGED <<manVars, idVars, covVars, launchVars, listVars>>

(***************************************************************************)
(* Specifications                                                          *)
(***************************************************************************)

ManInit ==
    ManStart /\ IdParked /\ CovParked /\ LaunchParked /\ ListParked /\ MainParked

ManNext == LoadManifest

SpecManifest == ManInit /\ [][ManNext]_vars

IdInit ==
    IdStart /\ ManParked /\ CovParked /\ LaunchParked /\ ListParked /\ MainParked

IdNext == ConstructBug

SpecIdentifier == IdInit /\ [][IdNext]_vars

CovInit ==
    CovStart /\ ManParked /\ IdParked /\ LaunchParked /\ ListParked /\ MainParked

CovNext ==
    \E p \in Procs :
        \/ Begin(p)
        \/ LoadCached(p)
        \/ Provision(p)
        \/ RunCoverage(p)
        \/ OpenCache(p)
        \/ DumpChunk(p)
        \/ Finally(p)

SpecCoverage == CovInit /\ [][CovNext]_vars

LaunchInit ==
    LaunchStart /\ ManParked /\ IdParked /\ CovParked /\ ListParked /\ MainParked

LaunchNext ==
    \/ LookupBug
    \/ InstallBug
    \/ ResolveTool
    \/ LaunchProvision
    \/ Interact
    \/ LaunchFinally

SpecLaunch == LaunchInit /\ [][LaunchNext]_vars

ListInit ==
    ListStart /\ ManParked /\ IdParked /\ CovParked /\ LaunchParked /\ MainParked

ListNext ==
    \/ ListBugs
    \/ ListTools
    \/ ListDatasets

SpecList == ListInit /\ [][ListNext]_vars

MainInit ==
    MainStart /\ ManParked /\ IdParked /\ CovParked /\ LaunchParked

MainNext ==
    \/ MainParse
    \/ MainDispatch
    \/ MainExcept

SpecMain == MainInit /\ [][MainNext]_vars

(***************************************************************************)
(* Claims about Bug.coverage                                               *)
(***************************************************************************)

Ended(p) == pc[p] = "done"
Alone(p) == \A q \in Procs \ {p} : acc[q].n = 0
ThisContainer(p) == <<p, acc[p].n>>

\* C1: an access of `coverage` that finds no cache file and returns has made
\* exactly one provision call, one instrumented run and one destroy call, and
\* has written the whole map to the cache file (which then holds exactly that
\* map when no other process touches it); no access makes more than one
\* provision call, run, write or destroy call; an access that finds the
\* cache file makes no provision call, no run and no write, and what it
\* returns is what from_file reads from the disk.
C1_CoverageCaching ==
    \A p \in Procs :
        Ended(p) =>
            /\ (~acc[p].sawCache /\ acc[p].outcome = "returned") =>
                   /\ acc[p].nProv = 1
                   /\ acc[p].nRun = 1
                   /\ ThisContainer(p) \in handles
                   /\ destroyCalls[ThisContainer(p)] = 1
                   /\ ThisContainer(p) \notin running
                   /\ acc[p].nOpen = 1
                   /\ acc[p].written
                   /\ acc[p].result \in CoverageMaps
                   /\ cacheFile.exists
                   /\ Alone(p) => cacheFile.data = Dump(acc[p].result)
            /\ ~acc[p].sawCache =>
                   /\ acc[p].nProv = 1
                   /\ acc[p].nRun <= 1
                   /\ acc[p].nOpen <= 1
                   /\ destroyCalls[ThisContainer(p)] <= 1
            /\ acc[p].sawCache =>
                   /\ acc[p].nProv = 0
                   /\ acc[p].nRun = 0
                   /\ acc[p].nOpen = 0
                   /\ ThisContainer(p) \notin handles
                   /\ destroyCalls[ThisContainer(p)] = 0
                   /\ acc[p].result = CoverageFromFile(acc[p].diskRead)
                   /\ Alone(p) => acc[p].diskRead = cacheFile.data

\* C1 witness: a process, alone, has ended its second access, which found the
\* cache file its first access wrote, made no provision call and returned
\* the map read from the file.
C1_Witness ==
    \E p \in Procs :
        /\ Ended(p) /\ Alone(p)
        /\ acc[p].n = 2
        /\ acc[p].sawCache
        /\ acc[p].nProv = 0
        /\ acc[p].outcome = "returned"
        /\ destroyCalls[<<p, 1>>] = 1
        /\ cacheFile.data = Dump(acc[p].result)

\* The access in which container c was provisioned is over.
AccessOver(c) == acc[c[1]].n > c[2] \/ (acc[c[1]].n = c[2] /\ pc[c[1]] = "done")

\* C2: once an access of `coverage` has returned or raised, every container
\* that provision() returned to it has received exactly one destroy() call
\* and is no longer running, whether the run succeeded, the run failed or
\* the write to disk failed; no container is ever destroyed twice.
C2_ContainerDestroyedOnce ==
    /\ \A c \in handles :
           AccessOver(c) => (destroyCalls[c] = 1 /\ c \notin running)
    /\ \A c \in ContainerIds : destroyCalls[c] <= 1

\* C2 witness: one process ended an access in which the instrumented run
\* raised, the other ended one in which the write to disk raised, and both
\* containers were destroyed once.
C2_Witness ==
    \E p, q \in Procs :
        /\ p # q /\ Ended(p) /\ Ended(q)
        /\ acc[p].outcome = "raised" /\ acc[p].nRun = 1 /\ acc[p].nOpen = 0
        /\ ThisContainer(p) \in handles /\ destroyCalls[ThisContainer(p)] = 1
        /\ acc[q].outcome = "raised" /\ acc[q].nOpen = 1 /\ ~acc[q].written
        /\ ThisContainer(q) \in handles /\ destroyCalls[ThisContainer(q)] = 1

\* C10: whenever no access of `coverage` is in progress, the cache file
\* exists only if it holds the complete map of a successful instrumented
\* run; so after an access whose run or write failed there is no cache file.
C10_CacheFileComplete ==
    (\A p \in Procs : pc[p] \in {"idle", "done"}) =>
        (cacheFile.exists => \E m \in CoverageMaps : cacheFile.data = Dump(m))

(***************************************************************************)
(* Claims about cli.launch                                                 *)
(***************************************************************************)

\* C3: when `container launch` ends, normally or by an error raised in
\* provision or in interact, no runtime instance the command started is left
\* running, and destroy was called at most once.
C3_LaunchLeavesNothingRunning ==
    lpc = "done" => (linstances = {} /\ ldestroys <= 1)

\* The place of a call in the order lookup, install, resolve, provision,
\* interact, destroy.
StepRank(c) ==
    CASE c = "lookup" -> 1
      [] c = "install" -> 2
      [] c = "resolve" -> 3
      [] c = "provision" -> 4
      [] c = "interact" -> 5
      [] c = "destroy" -> 6

\* The calls launch makes outside its try block.
BeforeTry == {"lookup", "install", "resolve"}

\* The command ended and none of its calls raised.
LaunchCompleted == lpc = "done" /\ lexc = "none"

\* C11: at every point of `container launch`, the calls made so far are in
\* the order lookup, install, one resolve per named tool, provision,
\* interact, destroy, none but resolve made twice; a lookup, install or
\* resolve that raised is the last call of the command (no provision, no
\* interact, no destroy after it); provision is called only after the
\* lookup, the install and the resolution of every named tool returned;
\* interact is called only right after a provision that returned; destroy
\* is called only right after interact returned or raised; and a command
\* that ends without an error made all of these calls.
C11_LaunchOrder ==
    LET n == Len(ltrace) IN
    /\ \A i, j \in 1..n :
           i < j => \/ StepRank(ltrace[i].call) < StepRank(ltrace[j].call)
                    \/ ltrace[i].call = "resolve" /\ ltrace[j].call = "resolve"
    /\ \A i \in 1..n :
           (ltrace[i].call \in BeforeTry /\ ~ltrace[i].ok) => i = n
    /\ \A i \in 1..n :
           ltrace[i].call = "provision" =>
               /\ i = Len(largs.tools) + 3
               /\ ltrace[1] = Call("lookup", TRUE)
               /\ ltrace[2] = Call("install", TRUE)
               /\ \A k \in 3..(i - 1) : ltrace[k] = Call("resolve", TRUE)
               /\ Len(ltools) = Len(largs.tools)
    /\ \A i \in 1..n :
           ltrace[i].call = "interact" =>
               i > 1 /\ ltrace[i - 1] = Call("provision", TRUE)
    /\ \A i \in 1..n :
           ltrace[i].call = "destroy" =>
               i > 1 /\ ltrace[i - 1].call = "interact"
    /\ LaunchCompleted =>
           /\ n = Len(largs.tools) + 5
           /\ ltrace[n - 2].call = "provision"
           /\ ltrace[n - 1].call = "interact"
           /\ ltrace[n].call = "destroy"

\* C11 witness: a command naming two tools made every call, interact raised
\* and destroy followed it.
C11_Witness ==
    /\ lpc = "done"
    /\ Len(largs.tools) = 2
    /\ Len(ltrace) = 7
    /\ ltrace[6] = Call("interact", FALSE)
    /\ ltrace[7] = Call("destroy", TRUE)

(***************************************************************************)
(* Claims about Bug.from_file and Bug.identifier                           *)
(***************************************************************************)

\* The manifests C4 is about: no `languages` key, no `compiler` key, or an
\* empty `languages` list.
C4Case(y) ==
    \/ "languages" \notin y.keys
    \/ "compiler" \notin y.keys
    \/ y.languages = <<>>

\* The error kind MissingData, by condition: a required key is absent
\* (from_file's own Exception, or the KeyError of a subscript), or the
\* constructor's invariant is violated (AssertionError).
MissingData(r) == r.kind \in {"Exception", "KeyError", "AssertionError"}

\* C4: loading a manifest that has no `languages` key, no `compiler` key or
\* an empty `languages` list fails with an error of the MissingData kind, and
\* produces no Bug.
C4_BadManifestRejected ==
    (loaded # NotLoaded /\ C4Case(yml)) =>
        (loaded.kind # "Bug" /\ MissingData(loaded))

NonEmptyNames(b) == b.dataset # <<>> /\ b.name # <<>> /\ b.program # <<>>

SameKey(b1, b2) ==
    b1.dataset = b2.dataset /\ b1.program = b2.program /\ b1.name = b2.name

\* C8: the identifier of a constructed bug with non-empty names is
\* "<dataset>:<program>:<name>" when a program is set and "<dataset>:<name>"
\* otherwise, and two bugs that differ in (dataset, program, name) never have
\* the same identifier.
C8_IdentifierFormatAndUnique ==
    /\ \A i \in 1..Len(bugs) :
          NonEmptyNames(bugs[i]) =>
              Identifier(bugs[i]) =
                  IF bugs[i].program # NoString
                  THEN bugs[i].dataset \o <<58>> \o bugs[i].program \o <<58>>
                           \o bugs[i].name
                  ELSE bugs[i].dataset \o <<58>> \o bugs[i].name
    /\ \A i, j \in 1..Len(bugs) :
          (NonEmptyNames(bugs[i]) /\ NonEmptyNames(bugs[j])
              /\ ~SameKey(bugs[i], bugs[j])) =>
              Identifier(bugs[i]) # Identifier(bugs[j])

(***************************************************************************)
(* Claims about the listings                                               *)
(***************************************************************************)

RowsOf(t) == {t[i] : i \in 1..Len(t)}

RowOf(e) ==
    CASE listKind = "bug" -> BugRow(e)
      [] listKind = "tool" -> ToolRow(e)
      [] OTHER -> DatasetRow(e)

\* The entries of the registry a filter selects.
Selected(show) ==
    {i \in 1..Len(registry) :
        show = "None" \/ registry[i].installed = (show = "True")}

\* C6: for `bug list` and `tool list`, the rows listed with --installed are
\* exactly the entries whose installed flag is true, the rows listed with
\* --uninstalled exactly those whose flag is false, the rows listed without
\* filter all entries, each once; and the two filtered listings partition
\* the unfiltered one.
C6_FilterPartitions ==
    listKind \in {"bug", "tool"} =>
        /\ \A show \in DOMAIN tables :
              /\ RowsOf(tables[show]) = {RowOf(registry[i]) : i \in Selected(show)}
              /\ Len(tables[show]) = Cardinality(Selected(show))
              /\ \A i \in 1..Len(tables[show]) :
                    show # "None" =>
                        tables[show][i][3] = (IF show = "True" THEN Yes ELSE No)
        /\ Shows \subseteq DOMAIN tables =>
              /\ RowsOf(tables["True"]) \cap RowsOf(tables["False"]) = {}
              /\ RowsOf(tables["True"]) \cup RowsOf(tables["False"])
                     = RowsOf(tables["None"])
              /\ Len(tables["True"]) + Len(tables["False"]) = Len(tables["None"])

\* C6 witness: a tool registry with installed and uninstalled entries was
\* listed three times, and both filtered listings have rows.
C6_Witness ==
    /\ listKind = "tool"
    /\ Shows \subseteq DOMAIN tables
    /\ Len(tables["True"]) >= 2
    /\ Len(tables["False"]) >= 1
    /\ Len(tables["None"]) = Len(registry)

\* The place in the registry of the entry a row was made from.
RegPos(row) == CHOOSE i \in 1..Len(registry) : RowOf(registry[i]) = row

C5_TopLevelErrorHandling ==
    (mpc = "done" /\ raised # "none") =>
        /\ raised \in {"KeyboardInterrupt", "SystemExit"} =>
              (outcome.how = "clean" /\ printed = Nothing)
        /\ raised = "Error" =>
              (outcome.how = "clean" /\ printed.kind = "message")
        /\ raised \notin {"KeyboardInterrupt", "SystemExit", "Error"} =>
              (outcome.how = "propagated" /\ outcome.error = raised)

FilterFlags == {"--installed", "--uninstalled"}
OnlyFilterFlags == \A i \in 1..Len(argv.flags) : argv.flags[i] \in FilterFlags
BothFilterFlags == FilterFlags \subseteq {argv.flags[i] : i \in 1..Len(argv.flags)}

\* The filter the last option of the command line asks for.
LastFlag ==
    IF argv.flags = <<>> THEN "None"
    ELSE IF argv.flags[Len(argv.flags)] = "--installed" THEN "True"
    ELSE "False"

\* C9 as claimed: a command line that gives both --installed and
\* --uninstalled is rejected by the parser and no listing is printed.
C9_BothFlagsRejected ==
    (mpc = "done" /\ BothFilterFlags) =>
        (ns = "rejected" /\ printed.kind # "table")

\* C9 as amended: the parser accepts any sequence of --installed and
\* --uninstalled options, and the last one decides the filter of the listing
\* (none: no filter); a command line with an option the parser does not know
\* is rejected and prints no listing.
C9_LastFilterFlagWins ==
    /\ (mpc # "parse" /\ OnlyFilterFlags) =>
          /\ ns = LastFlag
          /\ (mpc = "done" /\ fault = "none") =>
                /\ printed.kind = "table"
                /\ RowsOf(printed.rows)
                       = {RowOf(registry[i]) : i \in Selected(LastFlag)}
                /\ Len(printed.rows) = Cardinality(Selected(LastFlag))
    /\ (mpc # "parse" /\ ~OnlyFilterFlags) =>
          (ns = "rejected" /\ printed.kind # "table")

\* C9 witness: `bug list --installed --uninstalled`, over a registry with an
\* installed and an uninstalled bug, printed the uninstalled bug only.
C9_Witness ==
    /\ mpc = "done"
    /\ argv = [group |-> "bug", flags |-> <<"--installed", "--uninstalled">>]
    /\ registry[1].installed /\ ~registry[2].installed
    /\ ns = "False"
    /\ printed = [kind |-> "table", rows |-> <<BugRow(registry[2])>>]

====
